---- MODULE Spec2Model ----
(***************************************************************************)
(* Model of app.py of the Metadata Creator Dash application: the file      *)
(* sampler parse_file_content, the model gateway call_databricks_model,    *)
(* and the two callbacks handle_file_upload and send_message that thread   *)
(* the conversation-history dcc.Store through the browser session.         *)
(*                                                                         *)
(* Text is a sequence of tokens (so that the empty string, prefixes,       *)
(* containment and whitespace stripping are observable); a Python value    *)
(* that may be None is wrapped as None / Some(v); a computation that may   *)
(* raise yields Ok(v) or Raise(str(e)).                                    *)
(***************************************************************************)
EXTENDS Integers, Sequences, FiniteSets, TLC

VARIABLES store, uploaded, chat, input, pending, ev, endpoint,
          fnArgs, fnOut, fnPc

vars == <<store, uploaded, chat, input, pending, ev, endpoint,
          fnArgs, fnOut, fnPc>>

sessionVars == <<store, uploaded, chat, input, pending, ev, endpoint>>

fnVars == <<fnArgs, fnOut, fnPc>>

(***************************************************************************)
(* Bounds of the model.                                                    *)
(***************************************************************************)
MaxStore == 4

MaxItems == 15

MaxConv == 2

(***************************************************************************)
(* Values.                                                                 *)
(***************************************************************************)
None == [some |-> FALSE]

Some(v) == [some |-> TRUE, val |-> v]

Ok(v) == [raised |-> FALSE, val |-> v]

Raise(msg) == [raised |-> TRUE, val |-> msg]

W(s) == [w |-> s, i |-> 0]

Item(k) == [w |-> "item", i |-> k]

SP == W(" ")

IsItem(t) == t.w = "item"

Min(a, b) == IF a < b THEN a ELSE b

Items(n) == [k \in 1..n |-> Item(k)]

IsPrefix(s, t) == Len(s) <= Len(t) /\ SubSeq(t, 1, Len(s)) = s

Contains(s, t) == \E k \in 1..Len(s) : s[k] = t

\* variant: the slice keeps one element more
Take_one_more(s, k) == SubSeq(s, 1, Min(Len(s), k + 1))

\* python: seq[:k]
Take(s, k) == SubSeq(s, 1, Min(Len(s), k))

RECURSIVE lstrip(_)
lstrip(s) == IF s # <<>> /\ Head(s) = SP THEN lstrip(Tail(s)) ELSE s

RECURSIVE rstrip(_)
rstrip(s) ==
    IF s # <<>> /\ s[Len(s)] = SP THEN rstrip(SubSeq(s, 1, Len(s) - 1)) ELSE s

\* python: str.strip()
strip(s) == rstrip(lstrip(s))

\* python: str.endswith(suffix); a filename is <<stem, extension>>
endswith(s, suffix) == s # <<>> /\ s[Len(s)] = W(suffix)

\* python: f"{filename}" of a value that may be None
fmt(x) == IF x.some THEN x.val ELSE <<W("None")>>

SampleRows == 10

SYSTEM_PROMPT == <<W("metadata_prompt.txt")>>

(***************************************************************************)
(* parse_file_content.  An upload's contents string is described by what   *)
(* the library calls make of it: the number of pieces contents.split(',')  *)
(* yields, whether base64 and UTF-8 decoding succeed, whether the format   *)
(* parser accepts the bytes, whether the JSON top level is a list, and the *)
(* number n of items (rows, elements, lines) the payload holds.            *)
(***************************************************************************)

\* pandas DataFrame.to_string(): a header line, then one line per row
to_string(rows) ==
    IF rows = <<>> THEN <<W("Empty DataFrame")>> ELSE <<W("columns")>> \o rows

\* json.dumps(data, indent=2) of a list
dumps_list(elems) == <<W("[")>> \o elems \o <<W("]")>>

\* str.split('\n'): an empty text still yields one (empty) piece
split_lines(c) == IF c.n = 0 THEN <<W("")>> ELSE Items(c.n)

parse_csv(c, filename) ==
    IF ~c.utf8 THEN Raise(<<W("UnicodeDecodeError")>>)
    ELSE IF ~c.wellformed THEN Raise(<<W("ParserError")>>)
    ELSE Ok(<<W("File:")>> \o filename
            \o <<W("Sample data (first 10 rows):")>>
            \o to_string(Take(Items(c.n), SampleRows)))

parse_excel(c, filename) ==
    IF ~c.wellformed THEN Raise(<<W("BadZipFile")>>)
    ELSE Ok(<<W("File:")>> \o filename
            \o <<W("Sample data (first 10 rows):")>>
            \o to_string(Take(Items(c.n), SampleRows)))

parse_json(c, filename) ==
    IF ~c.utf8 THEN Raise(<<W("UnicodeDecodeError")>>)
    ELSE IF ~c.wellformed THEN Raise(<<W("JSONDecodeError")>>)
    ELSE LET sample == IF c.toplist
                       THEN dumps_list(Take(Items(c.n), SampleRows))
                       ELSE <<[w |-> "object", i |-> c.n]>>
         IN  Ok(<<W("File:")>> \o filename \o <<W("Sample data:")>> \o sample)

parse_text(c, filename) ==
    IF ~c.utf8 THEN Raise(<<W("UnicodeDecodeError")>>)
    ELSE Ok(<<W("File:")>> \o filename
            \o <<W("Sample data (first 10 lines):")>>
            \o Take(split_lines(c), SampleRows))

\* the body of the try block
parse_try(c, filename) ==
    IF c.parts # 2 THEN Raise(<<W("ValueError")>>)
    ELSE IF ~c.b64 THEN Raise(<<W("binascii.Error")>>)
    ELSE IF ~filename.some THEN Raise(<<W("AttributeError")>>)
    ELSE IF endswith(filename.val, ".csv") THEN parse_csv(c, filename.val)
    ELSE IF endswith(filename.val, ".xlsx") \/ endswith(filename.val, ".xls")
         THEN parse_excel(c, filename.val)
    ELSE IF endswith(filename.val, ".json") THEN parse_json(c, filename.val)
    ELSE parse_text(c, filename.val)

\* variant: the handler catches everything but the ValueError of the unpacking
parse_catches_narrow(r) == r.raised /\ r.val # <<W("ValueError")>>

\* except Exception as e: every exception of the body is caught
parse_catches(r) == r.raised

parse_file_content(c, filename) ==
    LET r == parse_try(c, filename)
    IN  IF r.raised /\ parse_catches(r)
        THEN Ok(<<W("Error parsing file:")>> \o r.val)
        ELSE r

(***************************************************************************)
(* call_databricks_model.  The remote call's outcome is one of: query      *)
(* raises, the response has no choices attribute, choices is empty, or     *)
(* choices[0].message.content holds a reply text.                          *)
(***************************************************************************)

\* variant: the test is "SERVING_ENDPOINT is None"
endpoint_unset_is_none(e) == ~e.some

\* python: not SERVING_ENDPOINT (None or the empty string)
endpoint_unset(e) == ~e.some \/ e.val = <<>>

ENDPOINT_UNSET_MESSAGE ==
    <<W("Error:"), W("DATABRICKS_SERVING_ENDPOINT"), W("is not set.")>>

\* ChatMessageRole.USER if msg['role'] == 'user' else ChatMessageRole.ASSISTANT
ChatMessageRole(role) == IF role = "user" THEN "USER" ELSE "ASSISTANT"

ChatMessage(role, content) == [role |-> role, content |-> content]

\* variant: only the last two messages of the history are sent
chat_messages_window(messages) ==
    <<[role |-> "SYSTEM", content |-> SYSTEM_PROMPT]>>
    \o [k \in 1..Min(Len(messages), 2) |->
          [role |-> IF messages[Len(messages) - Min(Len(messages), 2) + k].role = "user"
                    THEN "USER" ELSE "ASSISTANT",
           content |-> messages[Len(messages) - Min(Len(messages), 2) + k].content]]

\* the request: the system message, then one ChatMessage per message
chat_messages(messages) ==
    <<ChatMessage("SYSTEM", SYSTEM_PROMPT)>>
    \o [k \in 1..Len(messages) |->
          ChatMessage(ChatMessageRole(messages[k].role), messages[k].content)]

\* the extraction of the reply from the response
extract_response(outcome) ==
    IF outcome.kind = "raise" THEN Raise(outcome.text)
    ELSE IF outcome.kind = "reply" THEN Ok(outcome.text)
    ELSE Ok(<<W("Sorry, I couldn't process that request.")>>)

call_databricks_model(messages, e, outcome) ==
    IF endpoint_unset(e)
    THEN [raised |-> FALSE, val |-> ENDPOINT_UNSET_MESSAGE,
          queried |-> FALSE, query |-> <<>>]
    ELSE LET r == extract_response(outcome)
         IN  [raised |-> FALSE,
              val |-> IF r.raised THEN <<W("Error calling model:")>> \o r.val
                      ELSE r.val,
              queried |-> TRUE, query |-> chat_messages(messages)]

(***************************************************************************)
(* The callbacks.  The browser fires a callback with the values its Input  *)
(* and State properties hold at that moment; the handler runs on the       *)
(* server, blocks in call_databricks_model until the remote call returns,  *)
(* and its return values are then written to the Output properties.  The   *)
(* layout puts no disabled property on the upload area, the textarea or    *)
(* the Send button, so the other callback can be fired while one is        *)
(* waiting; one invocation per callback is modelled at a time.             *)
(***************************************************************************)
Callbacks == {"upload", "send"}

Msg(role, content) == [role |-> role, content |-> content]

Idle == [busy |-> FALSE, base |-> <<>>, conversation |-> <<>>,
         queried |-> FALSE, query |-> <<>>, file_content |-> <<>>]

Event(op, ret) == [op |-> op, ret |-> ret]

UploadEvent(op, u) ==
    [op |-> op, ret |-> <<>>, contents |-> u.contents, filename |-> u.filename]

\* variant: the user message is inserted at the front
append_user_front(conversation, content) ==
    <<[role |-> "user", content |-> content]>>
    \o (IF conversation.some THEN conversation.val ELSE <<>>)

\* if conversation is None: conversation = []; conversation.append(user)
append_user(conversation, content) ==
    (IF conversation.some THEN conversation.val ELSE <<>>)
    \o <<Msg("user", content)>>

\* variant: the reply is not appended
append_assistant_skip(conversation, ai_response) == conversation

\* conversation.append({'role': 'assistant', 'content': ai_response})
append_assistant(conversation, ai_response) ==
    Append(conversation, Msg("assistant", ai_response))

\* the message components built from the conversation
render(conversation) ==
    [k \in 1..Len(conversation) |->
        IF conversation[k].role = "user"
        THEN [className |-> "chat-message user",
              children |-> conversation[k].content]
        ELSE [className |-> "chat-message assistant",
              children |-> conversation[k].content]]

\* f"[File uploaded: {filename}]\n\n{file_content}"
upload_content(filename, file_content) ==
    <<W("[File uploaded:")>> \o fmt(filename) \o <<W("]")>> \o file_content

\* variant: the test is "not message", without the strip
send_rejects_no_strip(message) == ~message.some \/ message.val = <<>>

\* if not message or not message.strip()
send_rejects(message) ==
    ~message.some \/ message.val = <<>> \/ strip(message.val) = <<>>

\* the request call_databricks_model sends for a conversation, if any
issued_query(messages, e) ==
    LET r == call_databricks_model(messages, e, [kind |-> "empty", text |-> <<>>])
    IN  [queried |-> r.queried, query |-> r.query]

Waiting(base, conversation, file_content) ==
    LET q == issued_query(conversation, endpoint)
    IN  [busy |-> TRUE, base |-> base, conversation |-> conversation,
         queried |-> q.queried, query |-> q.query,
         file_content |-> file_content]

(***************************************************************************)
(* Input sets of the session.                                              *)
(***************************************************************************)
Endpoints == {None, Some(<<>>), Some(<<W("serving-endpoint")>>)}

Outcomes ==
    { [kind |-> "raise", text |-> <<W("PermissionDenied")>>],
      [kind |-> "noattr", text |-> <<>>],
      [kind |-> "empty", text |-> <<>>],
      [kind |-> "reply", text |-> <<>>],
      [kind |-> "reply", text |-> <<W("metadata")>>] }

TypedMessages == { <<>>, <<SP>>, <<W("Describe this dataset")>> }

Payload(parts, b64, utf8, wellformed, toplist, n) ==
    [parts |-> parts, b64 |-> b64, utf8 |-> utf8, wellformed |-> wellformed,
     toplist |-> toplist, n |-> n]

Filename(ext) == Some(<<W("data"), W(ext)>>)

Upload(c, filename) == [contents |-> c, filename |-> filename]

SessionUploads ==
    { Upload(None, None),
      Upload(Some(Payload(2, TRUE, TRUE, TRUE, TRUE, 2)), Filename(".csv")),
      Upload(Some(Payload(2, TRUE, TRUE, FALSE, TRUE, 2)), Filename(".json")),
      Upload(Some(Payload(3, TRUE, TRUE, TRUE, TRUE, 2)), Filename(".csv")) }

(***************************************************************************)
(* Actions of the session.                                                 *)
(***************************************************************************)
Init ==
    /\ store = <<>>
    /\ uploaded = None
    /\ chat = <<>>
    /\ input = None
    /\ pending = [cb \in Callbacks |-> Idle]
    /\ ev = Event("init", <<>>)
    /\ endpoint \in Endpoints
    /\ fnArgs = [fn |-> "none"]
    /\ fnOut = [raised |-> FALSE, val |-> <<>>, queried |-> FALSE, query |-> <<>>]
    /\ fnPc = "off"

\* the user edits the textarea
TypeMessage ==
    /\ fnPc = "off"
    /\ \E m \in TypedMessages : input' = Some(m)
    /\ input' # input
    /\ ev' = Event("type", <<>>)
    /\ UNCHANGED <<store, uploaded, chat, pending, endpoint>>
    /\ UNCHANGED fnVars

\* handle_file_upload up to the remote call
handle_file_upload_call ==
    \E u \in SessionUploads :
        /\ fnPc = "off"
        /\ ~pending["upload"].busy
        /\ IF ~u.contents.some
           THEN /\ uploaded' = None
                /\ ev' = UploadEvent("upload_rejected", u)
                /\ UNCHANGED <<store, chat, input, pending>>
           ELSE LET file_content == parse_file_content(u.contents.val, u.filename)
                    conversation ==
                        append_user(Some(store),
                                    upload_content(u.filename, file_content.val))
                IN  /\ Len(store) + 2 <= MaxStore
                    /\ IF file_content.raised
                       THEN /\ ev' = UploadEvent("upload_error", u)
                            /\ UNCHANGED <<store, uploaded, chat, input, pending>>
                       ELSE /\ pending' =
                                 [pending EXCEPT !["upload"] =
                                     Waiting(store, conversation, file_content.val)]
                            /\ ev' = UploadEvent("upload_call", u)
                            /\ UNCHANGED <<store, uploaded, chat, input>>
        /\ UNCHANGED endpoint
        /\ UNCHANGED fnVars

\* send_message up to the remote call
send_message_call ==
    /\ fnPc = "off"
    /\ ~pending["send"].busy
    /\ IF send_rejects(input)
       THEN /\ ev' = Event("send_rejected", <<>>)
            /\ UNCHANGED <<store, uploaded, chat, input, pending>>
       ELSE /\ Len(store) + 2 <= MaxStore
            /\ pending' =
                 [pending EXCEPT !["send"] =
                     Waiting(store, append_user(Some(store), input.val), <<>>)]
            /\ ev' = Event("send_call", <<>>)
            /\ UNCHANGED <<store, uploaded, chat, input>>
    /\ UNCHANGED endpoint
    /\ UNCHANGED fnVars

\* the remote call returns; handle_file_upload finishes and its outputs are written
handle_file_upload_return ==
    \E outcome \in Outcomes :
        LET p == pending["upload"]
            ai_response == call_databricks_model(p.conversation, endpoint, outcome)
            conversation == append_assistant(p.conversation, ai_response.val)
        IN  /\ fnPc = "off"
            /\ p.busy
            /\ pending' = [pending EXCEPT !["upload"] = Idle]
            /\ IF ai_response.raised
               THEN /\ ev' = Event("upload_error", <<>>)
                    /\ UNCHANGED <<store, uploaded, chat>>
               ELSE /\ uploaded' = Some(p.file_content)
                    /\ chat' = render(conversation)
                    /\ store' = conversation
                    /\ ev' = Event("upload_return", ai_response.val)
            /\ UNCHANGED <<input, endpoint>>
            /\ UNCHANGED fnVars

\* the remote call returns; send_message finishes and its outputs are written
send_message_return ==
    \E outcome \in Outcomes :
        LET p == pending["send"]
            ai_response == call_databricks_model(p.conversation, endpoint, outcome)
            conversation == append_assistant(p.conversation, ai_response.val)
        IN  /\ fnPc = "off"
            /\ p.busy
            /\ pending' = [pending EXCEPT !["send"] = Idle]
            /\ IF ai_response.raised
               THEN /\ ev' = Event("send_error", <<>>)
                    /\ UNCHANGED <<store, chat, input>>
               ELSE /\ chat' = render(conversation)
                    /\ input' = Some(<<>>)
                    /\ store' = conversation
                    /\ ev' = Event("send_return", ai_response.val)
            /\ UNCHANGED <<uploaded, endpoint>>
            /\ UNCHANGED fnVars

(***************************************************************************)
(* The two functions applied on their own to inputs drawn from bounded     *)
(* sets: any contents string and filename for parse_file_content, any      *)
(* conversation (the empty one included), endpoint setting and remote      *)
(* outcome for call_databricks_model.                                      *)
(***************************************************************************)
Payloads ==
    { Payload(parts, b64, utf8, wellformed, toplist, n) :
        parts \in 1..3, b64 \in BOOLEAN, utf8 \in BOOLEAN,
        wellformed \in BOOLEAN, toplist \in BOOLEAN, n \in 0..MaxItems }

Filenames ==
    {None} \cup { Filename(ext) : ext \in {".csv", ".xlsx", ".xls", ".json", ".txt", ".CSV"} }

Messages == { Msg(role, <<W("text")>>) : role \in {"user", "assistant"} }

Conversations == UNION { [1..k -> Messages] : k \in 0..MaxConv }

NoPayload == Payload(0, FALSE, FALSE, FALSE, FALSE, 0)

NoOutcome == [kind |-> "none", text |-> <<>>]

FnArgs(fn, c, filename, messages, e, outcome) ==
    [fn |-> fn, contents |-> c, filename |-> filename, messages |-> messages,
     endpoint |-> e, outcome |-> outcome]

ParseArgs ==
    { FnArgs("parse", c, f, <<>>, None, NoOutcome) : c \in Payloads, f \in Filenames }

CallArgs ==
    { FnArgs("call", NoPayload, None, m, e, o) :
        m \in Conversations, e \in Endpoints, o \in Outcomes }

InitFn ==
    /\ store = <<>>
    /\ uploaded = None
    /\ chat = <<>>
    /\ input = None
    /\ pending = [cb \in Callbacks |-> Idle]
    /\ ev = Event("init", <<>>)
    /\ endpoint = None
    /\ fnArgs \in ParseArgs \cup CallArgs
    /\ fnOut = [raised |-> FALSE, val |-> <<>>, queried |-> FALSE, query |-> <<>>]
    /\ fnPc = "ready"

ApplyParse ==
    /\ fnPc = "ready"
    /\ fnArgs.fn = "parse"
    /\ LET r == parse_file_content(fnArgs.contents, fnArgs.filename)
       IN  fnOut' = [raised |-> r.raised, val |-> r.val,
                     queried |-> FALSE, query |-> <<>>]
    /\ fnPc' = "done"
    /\ UNCHANGED fnArgs
    /\ UNCHANGED sessionVars

ApplyCall ==
    /\ fnPc = "ready"
    /\ fnArgs.fn = "call"
    /\ fnOut' = call_databricks_model(fnArgs.messages, fnArgs.endpoint, fnArgs.outcome)
    /\ fnPc' = "done"
    /\ UNCHANGED fnArgs
    /\ UNCHANGED sessionVars

Next ==
    \/ TypeMessage
    \/ handle_file_upload_call
    \/ send_message_call
    \/ handle_file_upload_return
    \/ send_message_return
    \/ ApplyParse
    \/ ApplyCall

\* a behaviour is either a browser session or one function application
Spec == (Init \/ InitFn) /\ [][Next]_vars

\* the blocking remote call returns (with a reply or an exception), and the
\* user of the session keeps submitting
FairSpec ==
    /\ Spec
    /\ WF_vars(handle_file_upload_return)
    /\ WF_vars(send_message_return)
    /\ WF_vars(handle_file_upload_call)
    /\ WF_vars(send_message_call)
    /\ WF_vars(TypeMessage)

(***************************************************************************)
(* Properties.                                                             *)
(***************************************************************************)
ReturnOps == {"upload_return", "send_return"}

ErrorOps == {"upload_error", "send_error"}

ErrorPrefix == <<W("Error parsing file:")>>

Last(q) == q[Len(q)]

\* the request role a stored role must be sent as
RequestRole(role) ==
    CASE role = "user" -> "USER"
      [] role = "assistant" -> "ASSISTANT"

\* a message value that is None, empty or only whitespace
Blank(message) ==
    ~message.some \/ \A k \in 1..Len(message.val) : message.val[k] = SP

Ext(filename) == Last(filename.val).w

\* splitting the data URL, base64 decoding, UTF-8 decoding or the
\* format-specific parse fails (or there is no filename to dispatch on)
ParseFails(c, filename) ==
    \/ c.parts # 2
    \/ ~c.b64
    \/ ~filename.some
    \/ Ext(filename) \notin {".xlsx", ".xls"} /\ ~c.utf8
    \/ Ext(filename) \in {".csv", ".xlsx", ".xls", ".json"} /\ ~c.wellformed

\* the endpoint name is None or the empty string
Unset(e) == e \in {None, Some(<<>>)}

AdjacentUsers(conv) ==
    \E k \in 1..(Len(conv) - 1) : conv[k].role = "user" /\ conv[k + 1].role = "user"

\* C1: every store value written by an action has the previously written
\* store value as a prefix (the store is append-only).
C1_AppendOnly == [][IsPrefix(store, store')]_vars

\* C2: at most one model call is outstanding at any time: while one submit
\* action waits for call_databricks_model, no other has started.
C2_SingleInFlight == ~(pending["upload"].busy /\ pending["send"].busy)

\* C3: call_databricks_model never raises and returns non-empty text, for
\* every conversation and every outcome of the remote call.
C3_NonEmptyText ==
    (fnPc = "done" /\ fnArgs.fn = "call") =>
        (~fnOut.raised /\ fnOut.val # <<>>)

\* C4: every remote query issued by a submit action is the system message
\* followed by the whole conversation as it stands after the new user message
\* was appended, one request message per stored message, same order, same
\* content, roles preserved, nothing dropped.
C4_QueryCarriesHistory ==
    \A cb \in Callbacks :
        (pending[cb].busy /\ pending[cb].queried) =>
            LET q == pending[cb].query
                conv == pending[cb].conversation
                base == pending[cb].base
            IN  /\ Len(conv) = Len(base) + 1
                /\ IsPrefix(base, conv)
                /\ Last(conv).role = "user"
                /\ Len(q) = Len(conv) + 1
                /\ q[1] = [role |-> "SYSTEM", content |-> SYSTEM_PROMPT]
                /\ \A k \in 1..Len(conv) :
                      /\ q[k + 1].role = RequestRole(conv[k].role)
                      /\ q[k + 1].content = conv[k].content

\* a query is waiting whose history already holds an earlier round
C4_Witness ==
    \E cb \in Callbacks :
        /\ pending[cb].busy
        /\ pending[cb].queried
        /\ Len(pending[cb].base) = 2
        /\ Len(pending[cb].query) = 4

\* C5: with the endpoint name unset, call_databricks_model returns a string
\* containing "DATABRICKS_SERVING_ENDPOINT", issues no query and does not
\* raise, and the submit action appends that string as an assistant message.
C5_EndpointUnset ==
    /\ (fnPc = "done" /\ fnArgs.fn = "call" /\ Unset(fnArgs.endpoint)) =>
          /\ ~fnOut.raised
          /\ ~fnOut.queried
          /\ Contains(fnOut.val, W("DATABRICKS_SERVING_ENDPOINT"))
    /\ (fnPc = "off" /\ Unset(endpoint)) =>
          /\ \A cb \in Callbacks : pending[cb].busy => ~pending[cb].queried
          /\ ev.op \notin ErrorOps
          /\ ev.op \in ReturnOps =>
                /\ Last(store).role = "assistant"
                /\ Last(store).content = ev.ret
                /\ Contains(Last(store).content, W("DATABRICKS_SERVING_ENDPOINT"))

\* a submit action has returned in a session whose endpoint name is unset
C5_Witness ==
    /\ fnPc = "off"
    /\ Unset(endpoint)
    /\ ev.op = "upload_return"
    /\ Len(store) = 2

\* C6: parse_file_content never raises; when decoding or parsing fails it
\* returns a string beginning with "Error parsing file:", and
\* handle_file_upload puts that string in the appended user message and
\* still calls the model.
C6_ParseTotal ==
    /\ (fnPc = "done" /\ fnArgs.fn = "parse") =>
          /\ ~fnOut.raised
          /\ ParseFails(fnArgs.contents, fnArgs.filename) =>
                IsPrefix(ErrorPrefix, fnOut.val)
    /\ ev.op # "upload_error"
    /\ (ev.op = "upload_call" /\ ParseFails(ev.contents.val, ev.filename)) =>
          LET p == pending["upload"]
          IN  /\ p.busy
              /\ IsPrefix(ErrorPrefix, p.file_content)
              /\ Last(p.conversation) =
                    Msg("user", upload_content(ev.filename, p.file_content))
              /\ ~Unset(endpoint) =>
                    /\ p.queried
                    /\ Last(p.query).content = Last(p.conversation).content

\* an upload that failed to parse is waiting for the model's reply
C6_Witness ==
    /\ ev.op = "upload_call"
    /\ ParseFails(ev.contents.val, ev.filename)
    /\ pending["upload"].queried

\* C7: for an upload that parses into n items, the preview holds exactly
\* the first min(n, 10) items in their original order, and the filename.
C7_FirstTen ==
    (/\ fnPc = "done"
     /\ fnArgs.fn = "parse"
     /\ ~ParseFails(fnArgs.contents, fnArgs.filename)
     /\ (Ext(fnArgs.filename) = ".json" => fnArgs.contents.toplist)) =>
        /\ SelectSeq(fnOut.val, IsItem) =
               [k \in 1..(IF fnArgs.contents.n < 10 THEN fnArgs.contents.n ELSE 10)
                   |-> Item(k)]
        /\ SubSeq(fnOut.val, 2, 1 + Len(fnArgs.filename.val)) = fnArgs.filename.val

\* a JSON list of 15 elements has been sampled to exactly 10
C7_Witness ==
    /\ fnPc = "done"
    /\ fnArgs.fn = "parse"
    /\ ~ParseFails(fnArgs.contents, fnArgs.filename)
    /\ Ext(fnArgs.filename) = ".json"
    /\ fnArgs.contents.toplist
    /\ fnArgs.contents.n = 15
    /\ Len(SelectSeq(fnOut.val, IsItem)) = 10

\* C8: an accepted submit action started on a store of length k returns a
\* store of length k+2 ending in the new user message and the assistant
\* message holding the gateway's return value; the user message is appended
\* before the model call; parse and model failures do not change this.
C8_RoundTrip ==
    [][/\ ev'.op \notin ErrorOps
       /\ ev'.op = "send_call" =>
             /\ pending'["send"].busy
             /\ pending'["send"].base = store
             /\ pending'["send"].conversation = Append(store, Msg("user", input.val))
       /\ ev'.op = "upload_call" =>
             /\ pending'["upload"].busy
             /\ pending'["upload"].base = store
             /\ pending'["upload"].conversation =
                   Append(store, Msg("user",
                       upload_content(ev'.filename, pending'["upload"].file_content)))
       /\ \A cb \in Callbacks :
             (pending[cb].busy /\ ~pending'[cb].busy) =>
                 LET p == pending[cb]
                     k == Len(p.base)
                 IN  /\ ev'.op \in ReturnOps
                     /\ Len(store') = k + 2
                     /\ SubSeq(store', 1, k) = p.base
                     /\ store'[k + 1] = Last(p.conversation)
                     /\ store'[k + 1].role = "user"
                     /\ store'[k + 2] = Msg("assistant", ev'.ret)
      ]_vars

\* a typed message sent on a conversation of 2 messages has grown it to 4,
\* the remote call having failed
C8_Witness ==
    /\ ev.op = "send_return"
    /\ Len(store) = 4
    /\ store[3] = Msg("user", <<W("Describe this dataset")>>)
    /\ IsPrefix(<<W("Error calling model:")>>, store[4].content)

\* C9 (as stated): the session reaches a store state in which two adjacent
\* entries both have role user.
C9_ConsecutiveUsers == <>(fnPc = "off" => AdjacentUsers(store))

\* C9 (amended): no store state has two adjacent user entries: every store
\* value is a sequence of (user, assistant) pairs; call_databricks_model
\* accepts a conversation with consecutive user messages and sends each as
\* a USER message.
C9_Alternates ==
    /\ \A k \in 1..Len(store) :
          store[k].role = IF k % 2 = 1 THEN "user" ELSE "assistant"
    /\ (/\ fnPc = "done"
        /\ fnArgs.fn = "call"
        /\ AdjacentUsers(fnArgs.messages)
        /\ ~Unset(fnArgs.endpoint)) =>
          /\ ~fnOut.raised
          /\ fnOut.queried
          /\ \A k \in 1..Len(fnArgs.messages) :
                fnOut.query[k + 1].role = RequestRole(fnArgs.messages[k].role)

\* an upload followed by a typed message has been answered twice
C9_Witness ==
    /\ Len(store) = 4
    /\ IsPrefix(<<W("[File uploaded:")>>, store[1].content)
    /\ store[3].content = <<W("Describe this dataset")>>

\* C10: a rejected submission (send with a None, empty or whitespace
\* message; upload with contents None) leaves the store and the rendered
\* messages unchanged and issues no model call; a rejected send does not
\* clear the text input.
C10_RejectedNoChange ==
    [][/\ ev'.op = "send_call" => ~Blank(input)
       /\ ev'.op = "send_rejected" =>
             /\ Blank(input)
             /\ store' = store /\ chat' = chat /\ input' = input
             /\ pending' = pending
       /\ ev'.op = "upload_call" => ev'.contents.some
       /\ ev'.op = "upload_rejected" =>
             /\ ~ev'.contents.some
             /\ store' = store /\ chat' = chat
             /\ pending' = pending
      ]_vars

\* a whitespace-only message has been rejected on a non-empty conversation
C10_Witness ==
    /\ ev.op = "send_rejected"
    /\ input = Some(<<SP>>)
    /\ Len(store) = 2

====
